---- MODULE Spec2Model ----
(***************************************************************************)
(* Model of the Stocks API facade (src/main.py): the two request           *)
(* pipelines get_quote and intraday, the symbol canonicalisation, the      *)
(* upstream reply handling and the normalisation of the upstream JSON.     *)
(*                                                                         *)
(* One request is followed from its arrival to its response.  The upstream *)
(* service is the environment: its reply is any element of the enumerated  *)
(* reply sets.                                                             *)
(***************************************************************************)
EXTENDS Integers, Sequences, FiniteSets, TLC

VARIABLES pc, endpoint, symbol, interval, sym, calls, sent, reply, response

vars == <<pc, endpoint, symbol, interval, sym, calls, sent, reply, response>>

(***************************************************************************)
(* Bounds of the enumerated inputs.                                        *)
(***************************************************************************)
MaxSymLen == 2
MaxBars == 2

(***************************************************************************)
(* JSON values as Python sees them after r.json(): tagged records.         *)
(* Absent is not a JSON value: it marks a key that a mapping lacks.        *)
(***************************************************************************)
Absent == [k |-> "absent"]
Null == [k |-> "null"]
Num(n) == [k |-> "num", v |-> n]
Str(s) == [k |-> "str", v |-> s]
Arr(s) == [k |-> "arr", v |-> s]
Obj(f) == [k |-> "obj", v |-> f]

EmptyObj == Obj([x \in {} |-> Null])
EmptyArr == Arr(<< >>)

\* A mapping holding exactly the keys of f whose value is not Absent.
MkObj(f) == Obj([key \in {x \in DOMAIN f : f[x] # Absent} |-> f[key]])

(***************************************************************************)
(* Python primitives used by the handlers.  A fallible operation yields    *)
(* Ok(value) or Raise(exception type).                                     *)
(***************************************************************************)
Ok(x) == [ok |-> TRUE, val |-> x]
Raise(e) == [ok |-> FALSE, exc |-> e]

\* x is None
IsNone(x) == x.k = "null"

\* bool(x)
Truthy(x) ==
  CASE x.k = "null" -> FALSE
    [] x.k = "num" -> x.v # 0
    [] x.k = "str" -> Len(x.v) > 0
    [] x.k = "arr" -> Len(x.v) > 0
    [] x.k = "obj" -> DOMAIN x.v # {}
    [] OTHER -> FALSE

\* d.get(key, default): only a mapping has the method.
PyGet(d, key, default) ==
  IF d.k = "obj"
    THEN Ok(IF key \in DOMAIN d.v THEN d.v[key] ELSE default)
    ELSE Raise("AttributeError")

\* x[i] for a non-negative i (Python counts from 0).
PyIndex(x, i) ==
  CASE x.k = "arr" -> IF i < Len(x.v) THEN Ok(x.v[i + 1]) ELSE Raise("IndexError")
    [] x.k = "str" -> IF i < Len(x.v) THEN Ok(Str(<<x.v[i + 1]>>)) ELSE Raise("IndexError")
    [] x.k = "obj" -> Raise("KeyError")
    [] OTHER -> Raise("TypeError")

\* len(x)
PyLen(x) ==
  CASE x.k = "arr" -> Ok(Len(x.v))
    [] x.k = "str" -> Ok(Len(x.v))
    [] x.k = "obj" -> Ok(Cardinality(DOMAIN x.v))
    [] OTHER -> Raise("TypeError")

\* float(x): the enumerated numbers are kept as they are, None and
\* containers are a TypeError, the enumerated strings are not numerals.
PyFloat(x) ==
  CASE x.k = "num" -> Ok(x.v)
    [] x.k = "str" -> Raise("ValueError")
    [] OTHER -> Raise("TypeError")

(***************************************************************************)
(* _iso_from_epoch: datetime.fromtimestamp(sec, tz=utc).isoformat() for a  *)
(* whole number of seconds sec >= 0, as the fields of the rendered text    *)
(* YYYY-MM-DDTHH:MM:SS+00:00 (proleptic Gregorian calendar).               *)
(***************************************************************************)
iso_from_epoch(sec) ==
  LET days == sec \div 86400
      rem == sec % 86400
      z == days + 719468
      era == z \div 146097
      doe == z - era * 146097
      yoe == (doe - doe \div 1460 + doe \div 36524 - doe \div 146096) \div 365
      doy == doe - (365 * yoe + yoe \div 4 - yoe \div 100)
      mp == (5 * doy + 2) \div 153
      m == IF mp < 10 THEN mp + 3 ELSE mp - 9
      y == yoe + era * 400 + (IF m <= 2 THEN 1 ELSE 0)
  IN [year |-> y, month |-> m, day |-> doy - (153 * mp + 2) \div 5 + 1,
      hour |-> rem \div 3600, minute |-> (rem % 3600) \div 60,
      second |-> rem % 60, offset |-> "+00:00"]

\* _iso_from_epoch applied to a JSON value: only a number has a timestamp.
IsoOf(t) == IF t.k = "num" THEN Ok(iso_from_epoch(t.v)) ELSE Raise("TypeError")

(***************************************************************************)
(* Symbol canonicalisation: symbol.upper().strip().  Characters are the    *)
(* enumerated alphabet: "a" has the upper-case form "A"; " " is white      *)
(* space; "kra" stands for U+0138, a lower-case letter that str.upper()    *)
(* leaves unchanged because Unicode gives it no upper-case form.           *)
(***************************************************************************)
Chars == {"a", "A", " ", "kra"}

UpperChar(c) == IF c = "a" THEN "A" ELSE c

Upper(s) == [i \in 1..Len(s) |-> UpperChar(s[i])]

IsSpace(c) == c = " "

RECURSIVE LStrip(_)
LStrip(s) == IF Len(s) > 0 /\ IsSpace(Head(s)) THEN LStrip(Tail(s)) ELSE s

RECURSIVE RStrip(_)
RStrip(s) ==
  IF Len(s) > 0 /\ IsSpace(s[Len(s)]) THEN RStrip(SubSeq(s, 1, Len(s) - 1)) ELSE s

Strip(s) == RStrip(LStrip(s))

\* Canon without the strip.
CanonUpperOnly(raw) == Upper(raw)

Canon(raw) == Strip(Upper(raw))

(***************************************************************************)
(* The interval parameter of intraday: Query("5m", pattern=...).  The      *)
(* framework matches a given value against the anchored alternation and    *)
(* answers 422 itself, without entering the handler, when it does not      *)
(* match; a request without the parameter gets the default.                *)
(***************************************************************************)
ValidIntervals == {"1m", "2m", "5m", "15m", "30m", "60m", "90m"}

NoInterval == "<not given>"

\* PatternMatches with the case of the unit ignored.
PatternMatchesAnyCase(s) ==
  s \in ValidIntervals \cup {"1M", "2M", "5M", "15M", "30M", "60M", "90M"}

PatternMatches(s) == s \in ValidIntervals

IntervalOf(given) == IF given = NoInterval THEN "5m" ELSE given

(***************************************************************************)
(* Error mapping of both handlers.                                         *)
(***************************************************************************)
MsgLimit == 200

Text(n) == [i \in 1..n |-> i]

\* Truncate without the slice.
TruncateNothing(msg) == msg

\* str(e)[:200]
Truncate(msg) == SubSeq(msg, 1, IF Len(msg) < MsgLimit THEN Len(msg) ELSE MsgLimit)

\* str(e) of an exception raised by the interpreter inside the handler:
\* its length ("'NoneType' object has no attribute 'get'", "list index out
\* of range", "0", and the TypeError texts).
Message(exc) ==
  CASE exc = "AttributeError" -> Text(40)
    [] exc = "IndexError" -> Text(23)
    [] exc = "KeyError" -> Text(1)
    [] OTHER -> Text(37)

HttpError(code, text) == [status |-> code, detail |-> text]

\* except Exception as e: raise HTTPException(500, str(e)[:200])
Unexpected(msg) == [status |-> 500, message |-> Truncate(msg)]

Success(content) == [status |-> 200, body |-> content]

(***************************************************************************)
(* Upstream replies.  requests.get either raises (a transport error with   *)
(* some message) or returns a response with a status and a body; r.json()  *)
(* either raises (a body that is no JSON, with some message) or yields the *)
(* decoded document.                                                       *)
(***************************************************************************)
TransportError(msg) == [kind |-> "error", msg |-> msg]
Unparseable(msg) == [json |-> FALSE, msg |-> msg]
Parsed(doc) == [json |-> TRUE, doc |-> doc]
Http(status, body) == [kind |-> "http", status |-> status, body |-> body]

\* (data or {}).get(outer, {}).get("result", [])
ResultOf(data, outer) ==
  LET d0 == IF Truthy(data) THEN data ELSE EmptyObj
      g1 == PyGet(d0, outer, EmptyObj)
  IN IF g1.ok THEN PyGet(g1.val, "result", EmptyArr) ELSE g1

(***************************************************************************)
(* get_quote, after the upstream call.                                     *)
(***************************************************************************)
\* QuoteName with the long name tried first.
QuoteNameLongFirst(short, long, s) ==
  IF Truthy(long) THEN long ELSE IF Truthy(short) THEN short ELSE Str(s)

\* q.get("shortName") or q.get("longName") or sym
QuoteName(short, long, s) ==
  IF Truthy(short) THEN short ELSE IF Truthy(long) THEN long ELSE Str(s)

\* _iso_from_epoch(ts) if ts else None
AsOf(ts) == IF Truthy(ts) THEN IsoOf(ts) ELSE Ok(Null)

\* The body of the try block from data = r.json() on.  The fields copied
\* unchanged with q.get (price, change, change_percent, open, high, low,
\* currency) are represented by price.
NormalizeQuote(data, s) ==
  LET res == ResultOf(data, "quoteResponse")
  IN IF ~res.ok THEN Unexpected(Message(res.exc))
     ELSE IF ~Truthy(res.val) THEN HttpError(404, "Symbol not found")
     ELSE LET q == PyIndex(res.val, 0)
          IN IF ~q.ok THEN Unexpected(Message(q.exc))
             ELSE IF q.val.k # "obj" THEN Unexpected(Message("AttributeError"))
             ELSE LET price == PyGet(q.val, "regularMarketPrice", Null).val
                      ts == PyGet(q.val, "regularMarketTime", Null).val
                      short == PyGet(q.val, "shortName", Null).val
                      long == PyGet(q.val, "longName", Null).val
                      name == QuoteName(short, long, s)
                      asof == AsOf(ts)
                  IN IF ~asof.ok THEN Unexpected(Message(asof.exc))
                     ELSE Success([symbol |-> s, price |-> price,
                                   as_of |-> asof.val, name |-> name])

\* QuoteOutcome with the body decoded before the status is looked at.
QuoteOutcomeDecodesFirst(rep, s) ==
  IF rep.kind = "error" THEN Unexpected(rep.msg)
  ELSE IF ~rep.body.json THEN Unexpected(rep.body.msg)
  ELSE IF rep.status # 200 THEN HttpError(502, "Upstream quote service error")
  ELSE NormalizeQuote(rep.body.doc, s)

QuoteOutcome(rep, s) ==
  IF rep.kind = "error" THEN Unexpected(rep.msg)
  ELSE IF rep.status # 200 THEN HttpError(502, "Upstream quote service error")
  ELSE IF ~rep.body.json THEN Unexpected(rep.body.msg)
  ELSE NormalizeQuote(rep.body.doc, s)

(***************************************************************************)
(* intraday, after the upstream call.                                      *)
(***************************************************************************)
\* Point with the open price defaulted the way the volume is: 0 when the
\* index is out of range or the value is None.
PointDefaultsOpen(i, t, opens, highs, lows, closes, volumes) ==
  LET m == PyLen(opens)
      o == IF ~m.ok THEN m ELSE IF i < m.val THEN PyIndex(opens, i) ELSE Ok(Num(0))
      h == PyIndex(highs, i)
      l == PyIndex(lows, i)
      c == PyIndex(closes, i)
      n == PyLen(volumes)
      v == IF ~n.ok THEN n ELSE IF i < n.val THEN PyIndex(volumes, i) ELSE Ok(Num(0))
  IN IF ~o.ok \/ ~h.ok \/ ~l.ok \/ ~c.ok \/ ~v.ok THEN << >>
     ELSE IF IsNone(h.val) \/ IsNone(l.val) \/ IsNone(c.val) THEN << >>
     ELSE LET iso == IsoOf(t)
              fo == PyFloat(IF Truthy(o.val) THEN o.val ELSE Num(0))
              fh == PyFloat(h.val)
              fl == PyFloat(l.val)
              fc == PyFloat(c.val)
              fv == PyFloat(IF Truthy(v.val) THEN v.val ELSE Num(0))
          IN IF ~iso.ok \/ ~fo.ok \/ ~fh.ok \/ ~fl.ok \/ ~fc.ok \/ ~fv.ok THEN << >>
             ELSE <<[i |-> i, t |-> iso.val, o |-> fo.val, h |-> fh.val,
                     l |-> fl.val, c |-> fc.val, v |-> fv.val]>>

\* One turn of the loop over enumerate(timestamps): the bar appended for
\* index i, or nothing when the turn ends in continue (a None among the
\* four prices, or any exception).  The field i of a bar is not part of
\* the response: it records the index the bar was built from.
Point(i, t, opens, highs, lows, closes, volumes) ==
  LET o == PyIndex(opens, i)
      h == PyIndex(highs, i)
      l == PyIndex(lows, i)
      c == PyIndex(closes, i)
      n == PyLen(volumes)
      v == IF ~n.ok THEN n ELSE IF i < n.val THEN PyIndex(volumes, i) ELSE Ok(Num(0))
  IN IF ~o.ok \/ ~h.ok \/ ~l.ok \/ ~c.ok \/ ~v.ok THEN << >>
     ELSE IF IsNone(o.val) \/ IsNone(h.val) \/ IsNone(l.val) \/ IsNone(c.val) THEN << >>
     ELSE LET iso == IsoOf(t)
              fo == PyFloat(o.val)
              fh == PyFloat(h.val)
              fl == PyFloat(l.val)
              fc == PyFloat(c.val)
              fv == PyFloat(IF Truthy(v.val) THEN v.val ELSE Num(0))
          IN IF ~iso.ok \/ ~fo.ok \/ ~fh.ok \/ ~fl.ok \/ ~fc.ok \/ ~fv.ok THEN << >>
             ELSE <<[i |-> i, t |-> iso.val, o |-> fo.val, h |-> fh.val,
                     l |-> fl.val, c |-> fc.val, v |-> fv.val]>>

RECURSIVE PointsFrom(_, _, _, _, _, _, _)
PointsFrom(i, ts, opens, highs, lows, closes, volumes) ==
  IF i >= Len(ts) THEN << >>
  ELSE Point(i, ts[i + 1], opens, highs, lows, closes, volumes)
         \o PointsFrom(i + 1, ts, opens, highs, lows, closes, volumes)

\* The body of the try block from data = r.json() on.
NormalizeChart(data, s, ival) ==
  LET res == ResultOf(data, "chart")
  IN IF ~res.ok THEN Unexpected(Message(res.exc))
     ELSE IF ~Truthy(res.val) THEN HttpError(404, "No intraday data found")
     ELSE LET series == PyIndex(res.val, 0)
              got == IF series.ok THEN PyGet(series.val, "timestamp", EmptyArr) ELSE series
              timestamps == IF got.ok /\ ~Truthy(got.val) THEN Ok(EmptyArr) ELSE got
              indicators == IF timestamps.ok
                              THEN PyGet(series.val, "indicators", EmptyObj) ELSE timestamps
              quote == IF indicators.ok
                         THEN PyGet(indicators.val, "quote", EmptyArr) ELSE indicators
              quotes == IF ~quote.ok THEN quote
                        ELSE PyIndex(IF Truthy(quote.val) THEN quote.val
                                     ELSE Arr(<<EmptyObj>>), 0)
              opens == IF quotes.ok THEN PyGet(quotes.val, "open", EmptyArr) ELSE quotes
          IN IF ~opens.ok THEN Unexpected(Message(opens.exc))
             ELSE IF timestamps.val.k \notin {"arr", "str", "obj"}
               THEN Unexpected(Message("TypeError"))
             ELSE LET highs == PyGet(quotes.val, "high", EmptyArr).val
                      lows == PyGet(quotes.val, "low", EmptyArr).val
                      closes == PyGet(quotes.val, "close", EmptyArr).val
                      volumes == PyGet(quotes.val, "volume", EmptyArr).val
                      \* iterating a str or a dict yields strings, for
                      \* which _iso_from_epoch raises: no bar
                      ts == IF timestamps.val.k = "arr" THEN timestamps.val.v ELSE << >>
                  IN Success([symbol |-> s, interval |-> ival,
                              points |-> PointsFrom(0, ts, opens.val, highs, lows,
                                                    closes, volumes)])

IntradayOutcome(rep, s, ival) ==
  IF rep.kind = "error" THEN Unexpected(rep.msg)
  ELSE IF rep.status # 200 THEN HttpError(502, "Upstream chart service error")
  ELSE IF ~rep.body.json THEN Unexpected(rep.body.msg)
  ELSE NormalizeChart(rep.body.doc, s, ival)

(***************************************************************************)
(* Enumerated inputs.                                                      *)
(***************************************************************************)
Symbols == UNION {[1..n -> Chars] : n \in 0..MaxSymLen}

Intervals == ValidIntervals \cup {"3m", "5M", "", NoInterval}

Statuses == {200, 204, 500}

Messages == {Text(0), Text(MsgLimit), Text(MsgLimit + 1)}

Bodies(docs) == {Unparseable(m) : m \in Messages} \cup {Parsed(d) : d \in docs}

Replies(docs) ==
  {TransportError(m) : m \in Messages}
    \cup {Http(st, b) : st \in Statuses, b \in Bodies(docs)}

\* Documents around a result sequence: the levels above it absent, null or
\* empty, and the sequence itself.
Wrapped(outer, results) ==
  {Null, EmptyObj, MkObj([x \in {outer} |-> Null]), MkObj([x \in {outer} |-> EmptyObj])}
    \cup {MkObj([x \in {outer} |-> MkObj([result |-> r])]) : r \in results}

ShortNames == {Absent, Str(<< >>), Str(<<"A", "p">>)}
LongNames == {Absent, Str(<< >>), Str(<<"A", "p", "p">>)}
Epochs == {Absent, Null, Num(0), Num(100), Num(951782400)}
Prices == {Absent, Num(1)}

QuoteItems ==
  {MkObj([shortName |-> sn, longName |-> ln, regularMarketTime |-> ts,
          regularMarketPrice |-> p]) :
     sn \in ShortNames, ln \in LongNames, ts \in Epochs, p \in Prices}

QuoteDocs ==
  Wrapped("quoteResponse", {Null, EmptyArr} \cup {Arr(<<q>>) : q \in QuoteItems \cup {Null}})

\* One series of the chart document and what it is built from.
Fields == {"open", "high", "low", "close", "volume"}

Indicators(qv) == MkObj([quote |-> qv])

Series(ts, ind) == MkObj([timestamp |-> ts, indicators |-> ind])

ChartDoc(series) == MkObj([chart |-> MkObj([result |-> Arr(<<series>>)])])

\* An array of a bundle: absent, null, or up to MaxBars values or nulls.
ArrayShapes ==
  {Absent, Null}
    \cup {Arr(a) : a \in UNION {[1..n -> {Null, Num(1)}] : n \in 0..MaxBars}}

FullArr == Arr([i \in 1..MaxBars |-> Num(1)])

FullTs == Arr([i \in 1..MaxBars |-> Num(100 * i)])

TsShapes ==
  {Absent, Null}
    \cup {Arr(a) : a \in UNION {[1..n -> {Num(100), Num(200)}] : n \in 0..MaxBars}}

\* The bundle whose arrays f1 and f2 have the shapes s1 and s2, the others
\* being full.
BundleWith(f1, s1, f2, s2) ==
  MkObj([x \in Fields |-> IF x = f1 THEN s1 ELSE IF x = f2 THEN s2 ELSE FullArr])

Bundles == {BundleWith(f1, s1, f2, s2) : f1 \in Fields, f2 \in Fields,
                                         s1 \in ArrayShapes, s2 \in ArrayShapes}

\* Every timestamp sequence with every bundle in which at most two arrays
\* are not full.
SeriesDocs ==
  {ChartDoc(Series(ts, Indicators(Arr(<<b>>)))) : ts \in TsShapes, b \in Bundles}

\* The levels between the result sequence and the arrays absent, null or
\* empty, one array of the bundle absent or null.
ShapeBundles == {BundleWith(f, s, f, s) : f \in Fields, s \in {Absent, Null, FullArr}}

ShapeIndicators ==
  {Absent, Null}
    \cup {Indicators(qv) : qv \in {Absent, Null, EmptyArr, Arr(<<Null>>)}
                                   \cup {Arr(<<b>>) : b \in ShapeBundles}}

ShapeSeries == {Series(ts, ind) : ts \in {Absent, Null, FullTs}, ind \in ShapeIndicators}

ChartDocs ==
  Wrapped("chart", {Null, EmptyArr} \cup {Arr(<<x>>) : x \in ShapeSeries \cup {Null}})

QuoteReplies == Replies(QuoteDocs)

ChartReplies == Replies(ChartDocs)

SeriesReplies == {Http(200, Parsed(doc)) : doc \in SeriesDocs}

(***************************************************************************)
(* The state machine: one request from arrival to response.                *)
(*   pc        "idle", "call" (handler entered, upstream not yet called),  *)
(*             "reply" (upstream has answered or failed), "done"           *)
(*   symbol    the symbol parameter as given                               *)
(*   interval  the interval parameter as given, or NoInterval              *)
(*   sym       the canonical symbol                                        *)
(*   calls     outbound calls performed for this request                   *)
(*   sent      what the outbound call carried                              *)
(***************************************************************************)
NoCall == [url |-> "none"]
NoReply == [kind |-> "none"]
NoResponse == [status |-> 0]

Init ==
  /\ pc = "idle"
  /\ endpoint = "none"
  /\ symbol = << >>
  /\ interval = NoInterval
  /\ sym = << >>
  /\ calls = 0
  /\ sent = NoCall
  /\ reply = NoReply
  /\ response = NoResponse

\* GET /api/stocks/quote?symbol=raw: sym = symbol.upper().strip()
get_quote_start(raws) ==
  /\ pc = "idle"
  /\ \E raw \in raws :
       /\ symbol' = raw
       /\ sym' = Canon(raw)
  /\ pc' = "call"
  /\ endpoint' = "quote"
  /\ UNCHANGED <<interval, calls, sent, reply, response>>

\* GET /api/stocks/intraday with an interval the pattern refuses: the
\* framework answers the validation error, the handler is not entered.
intraday_reject(raws, givens) ==
  /\ pc = "idle"
  /\ \E raw \in raws, given \in givens :
       /\ given # NoInterval
       /\ ~PatternMatches(given)
       /\ symbol' = raw
       /\ interval' = given
  /\ pc' = "done"
  /\ endpoint' = "intraday"
  /\ response' = HttpError(422, "string_pattern_mismatch")
  /\ UNCHANGED <<sym, calls, sent, reply>>

\* GET /api/stocks/intraday with an interval the pattern accepts, or none.
intraday_start(raws, givens) ==
  /\ pc = "idle"
  /\ \E raw \in raws, given \in givens :
       /\ given = NoInterval \/ PatternMatches(given)
       /\ symbol' = raw
       /\ interval' = given
       /\ sym' = Canon(raw)
  /\ pc' = "call"
  /\ endpoint' = "intraday"
  /\ UNCHANGED <<calls, sent, reply, response>>

\* requests.get(YF_QUOTE_URL, params={"symbols": sym}, timeout=10)
get_quote_call(replies) ==
  /\ pc = "call"
  /\ endpoint = "quote"
  /\ pc' = "reply"
  /\ calls' = calls + 1
  /\ sent' = [url |-> "quote", symbol |-> sym]
  /\ \E rep \in replies : reply' = rep
  /\ UNCHANGED <<endpoint, symbol, interval, sym, response>>

\* requests.get(YF_CHART_URL.format(symbol=sym), params=params, timeout=10)
intraday_call(replies) ==
  /\ pc = "call"
  /\ endpoint = "intraday"
  /\ pc' = "reply"
  /\ calls' = calls + 1
  /\ sent' = [url |-> "chart", symbol |-> sym, interval |-> IntervalOf(interval)]
  /\ \E rep \in replies : reply' = rep
  /\ UNCHANGED <<endpoint, symbol, interval, sym, response>>

\* get_quote from the status check to its return or its raise.
get_quote_respond ==
  /\ pc = "reply"
  /\ endpoint = "quote"
  /\ pc' = "done"
  /\ response' = QuoteOutcome(reply, sym)
  /\ UNCHANGED <<endpoint, symbol, interval, sym, calls, sent, reply>>

\* intraday from the status check to its return or its raise.
intraday_respond ==
  /\ pc = "reply"
  /\ endpoint = "intraday"
  /\ pc' = "done"
  /\ response' = IntradayOutcome(reply, sym, IntervalOf(interval))
  /\ UNCHANGED <<endpoint, symbol, interval, sym, calls, sent, reply>>

\* The response is sent; nothing of the request is kept.
Finish ==
  /\ pc = "done"
  /\ pc' = "idle"
  /\ endpoint' = "none"
  /\ symbol' = << >>
  /\ interval' = NoInterval
  /\ sym' = << >>
  /\ calls' = 0
  /\ sent' = NoCall
  /\ reply' = NoReply
  /\ response' = NoResponse

Next ==
  \/ get_quote_start(Symbols)
  \/ intraday_reject(Symbols, Intervals)
  \/ intraday_start(Symbols, Intervals)
  \/ get_quote_call(QuoteReplies)
  \/ intraday_call(ChartReplies)
  \/ get_quote_respond
  \/ intraday_respond
  \/ Finish

Spec == Init /\ [][Next]_vars

\* The intraday pipeline on every enumerated series, for one request.
SeriesNext ==
  \/ intraday_start({<<"a">>}, {"5m"})
  \/ intraday_call(SeriesReplies)
  \/ intraday_respond
  \/ Finish

SeriesSpec == Init /\ [][SeriesNext]_vars

(***************************************************************************)
(* Vocabulary of the properties: what the request and the upstream         *)
(* document were, read without the handlers' code.                         *)
(***************************************************************************)
Done == pc = "done"

Succeeded == Done /\ response.status = 200

\* The upstream answered 200 with a body that is JSON.
Decoded == reply.kind = "http" /\ reply.status = 200 /\ reply.body.json

\* The member of a mapping, Absent when there is no mapping or no such key.
Member(x, key) == IF x.k = "obj" /\ key \in DOMAIN x.v THEN x.v[key] ELSE Absent

\* The element i (from 0) of an array, Absent when there is none.
ElemAt(x, i) == IF x.k = "arr" /\ i < Len(x.v) THEN x.v[i + 1] ELSE Absent

Present(x) == x.k \notin {"absent", "null"}

NonEmptyText(x) == x.k = "str" /\ Len(x.v) > 0

ResultSeq == Member(Member(reply.body.doc, IF endpoint = "quote" THEN "quoteResponse" ELSE "chart"),
                    "result")

ResultAbsentOrEmpty == ~Present(ResultSeq) \/ ResultSeq = EmptyArr

FirstResult == ElemAt(ResultSeq, 0)

UpTimestamps == Member(FirstResult, "timestamp")

UpBundle == ElemAt(Member(Member(FirstResult, "indicators"), "quote"), 0)

UpLen == IF UpTimestamps.k = "arr" THEN Len(UpTimestamps.v) ELSE 0

\* Index i of the timestamp sequence has all four prices.
Complete(i) ==
  /\ i < UpLen
  /\ \A f \in {"open", "high", "low", "close"} : Present(ElemAt(Member(UpBundle, f), i))

InvalidInterval == interval \notin (ValidIntervals \cup {NoInterval})

C2_BadStatusIs502 ==
  (Done /\ reply.kind = "http" /\ reply.status # 200) =>
    /\ response.status = 502
    /\ response.detail = IF endpoint = "quote" THEN "Upstream quote service error"
                         ELSE "Upstream chart service error"

C2_Witness ==
  /\ Done
  /\ endpoint = "quote"
  /\ reply.kind = "http"
  /\ reply.status = 204
  /\ ~reply.body.json
  /\ response.status = 502

(***************************************************************************)
(* C3, as stated: when the upstream answers 200 and the result sequence    *)
(* (quoteResponse.result, chart.result) is absent or empty, both handlers  *)
(* answer 404.  Refuted by the code: a null quoteResponse or chart is 500. *)
(***************************************************************************)
C3_EmptyResultIs404 ==
  (Done /\ Decoded /\ ResultAbsentOrEmpty) => response.status = 404

(***************************************************************************)
(* C4: every bar of an intraday success comes from an index of the         *)
(* timestamp sequence at which open, high, low and close all exist and are *)
(* not null, and its volume is 0 when the volume at that index is out of   *)
(* range or null.                                                          *)
(***************************************************************************)
C4_BarsAreComplete ==
  (Succeeded /\ endpoint = "intraday") =>
    \A j \in 1..Len(response.body.points) :
      LET b == response.body.points[j]
      IN /\ Complete(b.i)
         /\ ~Present(ElemAt(Member(UpBundle, "volume"), b.i)) => b.v = 0

C4_Witness ==
  /\ Succeeded
  /\ endpoint = "intraday"
  /\ UpLen = 2
  /\ Len(response.body.points) = 1
  /\ response.body.points[1].i = 1
  /\ ElemAt(Member(UpBundle, "volume"), 1) = Absent
  /\ response.body.points[1].v = 0

(***************************************************************************)
(* C5, as stated: the bars are exactly the indices of the timestamp        *)
(* sequence with all four prices present and not null, in order, also when *)
(* the volume array is absent, null or too short.  Refuted by the code: a  *)
(* null volume array leaves no bar.                                        *)
(***************************************************************************)
C5_BarsAreExactlyTheCompleteIndices ==
  (Succeeded /\ endpoint = "intraday") =>
    [j \in 1..Len(response.body.points) |-> response.body.points[j].i]
      = SelectSeq([n \in 1..UpLen |-> n - 1], Complete)

(***************************************************************************)
(* C6, as stated: with a 200 and a non-empty chart.result, intraday        *)
(* succeeds whichever of timestamp, indicators, indicators.quote, its      *)
(* first element and the five arrays are absent or null.  Refuted by the   *)
(* code: a null indicators, or a null first element of quote, is 500.      *)
(***************************************************************************)
C6_AnyShapeSucceeds ==
  (Done /\ endpoint = "intraday" /\ Decoded /\ FirstResult.k = "obj") =>
    response.status = 200

(***************************************************************************)
(* C7, as stated: the name of a quote success is never empty.  Refuted:    *)
(* the last fallback is the canonical symbol, which is empty for a symbol  *)
(* of white space.                                                         *)
(***************************************************************************)
C7_NameNeverEmpty ==
  (Succeeded /\ endpoint = "quote") => NonEmptyText(response.body.name)

\* C7, amended: the name of a quote success is the short display name if
\* non-empty, else the long display name if non-empty, else the canonical
\* symbol; it is empty only when the canonical symbol is.
C7_NamePrecedence ==
  (Succeeded /\ endpoint = "quote") =>
    LET short == Member(FirstResult, "shortName")
        long == Member(FirstResult, "longName")
    IN /\ response.body.name = IF NonEmptyText(short) THEN short
                               ELSE IF NonEmptyText(long) THEN long
                               ELSE Str(sym)
       /\ Len(sym) > 0 => NonEmptyText(response.body.name)

C7_Witness ==
  /\ Succeeded
  /\ endpoint = "quote"
  /\ Member(FirstResult, "shortName") = Str(<< >>)
  /\ Member(FirstResult, "longName") = Str(<<"A", "p", "p">>)
  /\ response.body.name = Str(<<"A", "p", "p">>)

(***************************************************************************)
(* C8, as stated: as_of of a quote success is the ISO-8601 UTC rendering   *)
(* of regularMarketTime whenever the field is present, epoch 0 included,   *)
(* and is absent exactly when the field is.  Refuted by the code: epoch 0  *)
(* gives no as_of.                                                         *)
(***************************************************************************)
C8_AsOfRendersEveryEpoch ==
  (Succeeded /\ endpoint = "quote") =>
    LET ts == Member(FirstResult, "regularMarketTime")
    IN /\ ts.k = "num" => response.body.as_of = iso_from_epoch(ts.v)
       /\ response.body.as_of = Null <=> ~Present(ts)

Trimmed(s) == Len(s) > 0 => (s[1] # " " /\ s[Len(s)] # " ")

Canonical(lower) ==
  pc # "idle" /\ ~(endpoint = "intraday" /\ InvalidInterval) =>
    /\ sym = Canon(symbol)
    /\ Canon(sym) = sym
    /\ Trimmed(sym)
    /\ \A n \in 1..Len(sym) : sym[n] \notin lower
    /\ calls = 1 => sent.symbol = sym
    /\ Succeeded => response.body.symbol = sym

C10_NoLowerCaseLetter == Canonical({"a", "kra"})

\* C10, amended: the result has no lower-case letter that has an
\* upper-case form (no ASCII lower-case letter); the rest as stated.
C10_NoLetterWithUpperForm == Canonical({"a"})

C10_Witness ==
  /\ Succeeded
  /\ endpoint = "intraday"
  /\ symbol = <<" ", "a">>
  /\ sym = <<"A">>
  /\ sent.symbol = <<"A">>
  /\ response.body.symbol = <<"A">>

====
